---------------------------- MODULE Spec2Model ----------------------------
(***************************************************************************)
(* Model of src/ETL.py: a poll loop that fetches a JSON payload, saves it  *)
(* to a file, reads it back into a frame, transforms the frame and upserts *)
(* it into PostgreSQL.                                                     *)
(*                                                                         *)
(* Text is modelled as a sequence of one-character strings, so that the    *)
(* parsing and formatting functions are computed character by character.   *)
(***************************************************************************)
EXTENDS Integers, Sequences, FiniteSets, TLC

(***************************************************************************)
(* Bounds of the model.                                                    *)
(***************************************************************************)
\* longest batch ("data" list) a payload carries
MaxBatch == 2
\* number of ticks of the poll loop that are explored
MaxTicks == 2
\* longest tail, in tokens, appended to a left segment to build a name
MaxTail == 4
\* longest innings list given to format_score
MaxInnings == 3

(***************************************************************************)
(* Text helpers: Python's str.split(sep[, maxsplit]), str.split(),         *)
(* str.strip() and str(n).                                                 *)
(***************************************************************************)
SP == " "

\* does sep occur in s at position i
OccursAt(s, sep, i) ==
    /\ i >= 1
    /\ i + Len(sep) - 1 <= Len(s)
    /\ SubSeq(s, i, i + Len(sep) - 1) = sep

\* position of the first occurrence of sep in s, 0 when there is none
IndexOf(s, sep) ==
    IF \E i \in 1..Len(s) : OccursAt(s, sep, i)
    THEN CHOOSE i \in 1..Len(s) :
            /\ OccursAt(s, sep, i)
            /\ \A j \in 1..(i - 1) : ~OccursAt(s, sep, j)
    ELSE 0

\* s.split(sep, maxsplit); maxsplit = -1 is s.split(sep)
RECURSIVE Split(_, _, _)
Split(s, sep, maxsplit) ==
    LET i == IndexOf(s, sep) IN
    IF i = 0 \/ maxsplit = 0
    THEN <<s>>
    ELSE <<SubSeq(s, 1, i - 1)>> \o
         Split(SubSeq(s, i + Len(sep), Len(s)), sep,
               IF maxsplit < 0 THEN maxsplit ELSE maxsplit - 1)

RECURSIVE LStrip(_)
LStrip(s) ==
    IF s # <<>> /\ Head(s) = SP THEN LStrip(Tail(s)) ELSE s

RECURSIVE RStrip(_)
RStrip(s) ==
    IF s # <<>> /\ s[Len(s)] = SP THEN RStrip(SubSeq(s, 1, Len(s) - 1)) ELSE s

\* s.strip()
Strip(s) == RStrip(LStrip(s))

\* s.split(): the maximal runs of non-whitespace characters, in order
RECURSIVE SplitWS(_)
SplitWS(s) ==
    LET t == LStrip(s) IN
    IF t = <<>>
    THEN <<>>
    ELSE LET i == IndexOf(t, <<SP>>) IN
         IF i = 0
         THEN <<t>>
         ELSE <<SubSeq(t, 1, i - 1)>> \o SplitWS(SubSeq(t, i + 1, Len(t)))

DigitChar(d) ==
    CASE d = 0 -> "0" [] d = 1 -> "1" [] d = 2 -> "2" [] d = 3 -> "3"
      [] d = 4 -> "4" [] d = 5 -> "5" [] d = 6 -> "6" [] d = 7 -> "7"
      [] d = 8 -> "8" [] d = 9 -> "9"

\* str(n) of a natural number
RECURSIVE Digits(_)
Digits(n) ==
    IF n < 10 THEN <<DigitChar(n)>> ELSE Digits(n \div 10) \o <<DigitChar(n % 10)>>

\* A number is <<n>> (an int) or <<n, d>> (a float n.d); NumStr is what an
\* f-string makes of it.
NumStr(v) ==
    IF Len(v) = 1 THEN Digits(v[1]) ELSE Digits(v[1]) \o <<".">> \o Digits(v[2])

(***************************************************************************)
(* The result of a call: a value, or the exception it raised.              *)
(***************************************************************************)
Ok(v) == [exc |-> "none", val |-> v]
Raise(e) == [exc |-> e, val |-> <<>>]

(***************************************************************************)
(* transform_data.split_teams                                              *)
(***************************************************************************)
COMMA == <<",">>
VS == <<" ", "v", "s", " ">>

\* split_teams with a fault: the name is split on its first comma only, as
\* split_venue does
split_teams_first_comma(name) ==
    LET parts == Split(name, COMMA, 1)
        match_info == IF Len(parts) > 1 THEN Strip(parts[2]) ELSE <<>>
        teams == Split(parts[1], VS, -1)
    IN  IF Len(teams) < 2
        THEN Raise("IndexError")
        ELSE Ok(<<Strip(teams[1]), Strip(teams[2]),
                  IF match_info # <<>> THEN SplitWS(match_info)[1] ELSE <<>>>>)

split_teams(name) ==
    LET teams_part == Split(name, COMMA, -1)[1]
        match_info == IF Len(Split(name, COMMA, -1)) > 1
                      THEN Strip(Split(name, COMMA, -1)[2])
                      ELSE <<>>
        teams == Split(teams_part, VS, -1)
    IN  IF Len(teams) < 2
        THEN Raise("IndexError")
        ELSE Ok(<<Strip(teams[1]), Strip(teams[2]),
                  IF match_info # <<>> THEN SplitWS(match_info)[1] ELSE <<>>>>)

(***************************************************************************)
(* transform_data.format_score                                             *)
(***************************************************************************)
\* A score cell is [isList, items]: a list of innings entries, or something
\* that is not a list (an absent score reaches the frame as NaN).  An innings
\* entry is a mapping with the keys r, w, o, each bound to a number or missing
\* (<<>>).
NotAList == [isList |-> FALSE, items |-> <<>>]
ListOf(items) == [isList |-> TRUE, items |-> items]

\* score.get(k, 0)
Get(score, k) == IF score[k] = <<>> THEN <<0>> ELSE score[k]

\* f"{runs}/{wickets}({overs})"
FormatEntry(score) ==
    NumStr(Get(score, "r")) \o <<"/">> \o NumStr(Get(score, "w"))
        \o <<"(">> \o NumStr(Get(score, "o")) \o <<")">>

RECURSIVE Pad2(_)
Pad2(fs) == IF Len(fs) < 2 THEN Pad2(Append(fs, <<>>)) ELSE fs

\* format_score with a fault: the list is padded but not cut to its first
\* two entries
format_score_uncut(score_list) ==
    IF ~score_list.isList \/ Len(score_list.items) = 0
    THEN <<<<>>, <<>>>>
    ELSE Pad2([i \in 1..Len(score_list.items) |-> FormatEntry(score_list.items[i])])

format_score(score_list) ==
    IF ~score_list.isList \/ Len(score_list.items) = 0
    THEN <<<<>>, <<>>>>
    ELSE LET formatted_scores ==
                 Pad2([i \in 1..Len(score_list.items) |->
                          FormatEntry(score_list.items[i])])
         IN  SubSeq(formatted_scores, 1, 2)

(***************************************************************************)
(* transform_data.split_venue                                              *)
(***************************************************************************)
split_venue(venue) ==
    LET parts == Split(venue, COMMA, 1) IN
    IF Len(parts) < 2
    THEN Raise("IndexError")
    ELSE Ok(<<Strip(parts[1]), Strip(parts[2])>>)

UpperChar(c) ==
    CASE c = "t" -> "T" [] c = "o" -> "O" [] c = "d" -> "D" [] c = "i" -> "I"
      [] OTHER -> c

\* str.upper()
Upper(s) == [i \in 1..Len(s) |-> UpperChar(s[i])]

(***************************************************************************)
(* The data: raw match records, payloads, the intermediate file.           *)
(***************************************************************************)
RainSentinel == "No result due to rain"

GoodName == <<"A", " ", "v", "s", " ", "B", ",", " ", "3", " ", "M">>
NoVsName == <<"A", "B">>
GoodVenue == <<"G", ",", " ", "C">>
NoCommaVenue == <<"G">>
OneInnings == ListOf(<<[r |-> <<120>>, w |-> <<3>>, o |-> <<15, 2>>]>>)

RawMatch(id, name, status, venue, score) ==
    [id |-> id, name |-> name, matchType |-> <<"t", "2", "0">>,
     status |-> status, venue |-> venue, score |-> score]

\* The records a payload is made of: well-formed ones, ones with a malformed
\* name or venue, with the sentinel status and with statuses close to it.
RawRecords ==
    { RawMatch("m1", GoodName, "Live", GoodVenue, OneInnings),
      RawMatch("m2", GoodName, "", GoodVenue, NotAList),
      RawMatch("m1", NoVsName, RainSentinel, NoCommaVenue, NotAList),
      RawMatch("m2", NoVsName, "Live", GoodVenue, NotAList),
      RawMatch("m1", GoodName, "no result due to rain", NoCommaVenue, NotAList),
      RawMatch("m2", GoodName, RainSentinel, GoodVenue, OneInnings) }

Ids == {r.id : r \in RawRecords}

Batches == UNION {[1..n -> RawRecords] : n \in 0..MaxBatch}

\* A JSON payload: a mapping with or without the key "data".
Payloads ==
    {[hasData |-> FALSE, data |-> <<>>]} \cup
    {[hasData |-> TRUE, data |-> b] : b \in Batches}

\* An HTTP exchange: status 0 stands for requests.get raising (no response),
\* json for whether response.json() can decode the body.
Responses ==
    {[status |-> 0, json |-> FALSE, payload |-> [hasData |-> FALSE, data |-> <<>>]],
     [status |-> 500, json |-> TRUE, payload |-> [hasData |-> FALSE, data |-> <<>>]],
     [status |-> 200, json |-> FALSE, payload |-> [hasData |-> FALSE, data |-> <<>>]]}
    \cup {[status |-> 200, json |-> TRUE, payload |-> p] : p \in Payloads}

\* The intermediate file; stamp is the tick in which it was written.
NoFile == [exists |-> FALSE, stamp |-> 0, payload |-> [hasData |-> FALSE, data |-> <<>>]]
FileOf(t, p) == [exists |-> TRUE, stamp |-> t, payload |-> p]

(***************************************************************************)
(* fetch_and_save_json and load_json_to_dataframe                          *)
(***************************************************************************)
\* fetch_and_save_json with a fault: a non-200 status is not raised, the
\* function just returns
fetch_and_save_json_quiet(resp, file, t) ==
    IF resp.status = 0 THEN [exc |-> "ConnectionError", file |-> file]
    ELSE IF resp.status # 200 THEN [exc |-> "none", file |-> file]
    ELSE IF ~resp.json THEN [exc |-> "JSONDecodeError", file |-> file]
    ELSE [exc |-> "none", file |-> FileOf(t, resp.payload)]

fetch_and_save_json(resp, file, t) ==
    IF resp.status = 0 THEN [exc |-> "ConnectionError", file |-> file]
    ELSE IF resp.status # 200 THEN [exc |-> "Exception", file |-> file]
    ELSE IF ~resp.json THEN [exc |-> "JSONDecodeError", file |-> file]
    ELSE [exc |-> "none", file |-> FileOf(t, resp.payload)]

load_json_to_dataframe(file) ==
    IF ~file.exists THEN Raise("FileNotFoundError")
    ELSE IF ~file.payload.hasData THEN Raise("ValueError")
    \* a frame made of an empty list has no columns to select
    ELSE IF file.payload.data = <<>> THEN Raise("KeyError")
    ELSE Ok(file.payload.data)

(***************************************************************************)
(* transform_data                                                          *)
(***************************************************************************)
columns_order ==
    <<"id", "Team1", "Team2", "Match_Number", "matchType", "status",
      "score_of_team1", "score_of_team2", "Venue", "City", "system_time">>

\* df['status'] != 'No result due to rain'
Keeps(status) == status # RainSentinel

Filter(df) == SelectSeq(df, LAMBDA r : Keeps(r.status))

\* one row of the result, for a row whose name and venue parse
Normalize(r, now) ==
    [id |-> r.id,
     Team1 |-> split_teams(r.name).val[1],
     Team2 |-> split_teams(r.name).val[2],
     Match_Number |-> split_teams(r.name).val[3],
     matchType |-> Upper(r.matchType),
     status |-> r.status,
     score_of_team1 |-> format_score(r.score)[1],
     score_of_team2 |-> format_score(r.score)[2],
     Venue |-> split_venue(r.venue).val[1],
     City |-> split_venue(r.venue).val[2],
     system_time |-> now]

\* the column-wise applies over the rows: the first that raises ends the call
Apply(rows, now, emptyRaises) ==
    IF rows = <<>> /\ emptyRaises
    THEN Raise("ValueError")
    ELSE IF \E i \in 1..Len(rows) : split_teams(rows[i].name).exc # "none"
    THEN Raise("IndexError")
    ELSE IF \E i \in 1..Len(rows) : split_venue(rows[i].venue).exc # "none"
    THEN Raise("IndexError")
    ELSE Ok([i \in 1..Len(rows) |-> Normalize(rows[i], now)])

\* transform_data with a fault: the columns are parsed over the whole frame,
\* which is filtered afterwards
transform_data_parse_first(df, now, emptyRaises) ==
    LET all == Apply(df, now, emptyRaises) IN
    IF all.exc # "none"
    THEN all
    ELSE Ok(SelectSeq(all.val, LAMBDA r : Keeps(r.status)))

\* transform_data with a fault: a row whose name or venue does not parse is
\* skipped
transform_data_skip_bad(df, now, emptyRaises) ==
    Apply(SelectSeq(Filter(df),
                    LAMBDA r : /\ split_teams(r.name).exc = "none"
                               /\ split_venue(r.venue).exc = "none"),
          now, emptyRaises)

\* emptyRaises: whether assigning the result of an apply over an empty frame
\* to several columns raises (it depends on the pandas in use)
transform_data(df, now, emptyRaises) ==
    LET df_cleaned == Filter(df) IN Apply(df_cleaned, now, emptyRaises)

(***************************************************************************)
(* The store: table cricket_matches, keyed by id.                          *)
(***************************************************************************)
NoRow == [present |-> FALSE, cols |-> <<>>, created_at |-> 0, updated_at |-> 0]

\* tuple(row) for row in df.values
Tuple(row) == [i \in 1..Len(columns_order) |-> row[columns_order[i]]]

data_tuples(df) == [i \in 1..Len(df) |-> Tuple(df[i])]

\* the number of %s in upsert_query
Placeholders == 1

\* cur.mogrify(sql, args), which execute_batch calls with each row as args:
\* the arguments are formatted into the query one per placeholder, and
\* arguments left over (or missing) make it raise.  upsert_query takes a
\* row as the single value of VALUES %s, while a row is a tuple of
\* Len(columns_order) values.
Mogrify(args) == IF Len(args) = Placeholders THEN "ok" ELSE "TypeError"

\* INSERT ... ON CONFLICT (id) DO UPDATE SET ...: one statement's effect
Upsert(st, t, now) ==
    IF st[t[1]].present
    THEN [st EXCEPT ![t[1]].cols = t, ![t[1]].updated_at = now]
    ELSE [st EXCEPT ![t[1]] = [present |-> TRUE, cols |-> t,
                               created_at |-> now, updated_at |-> now]]

RECURSIVE UpsertAll(_, _, _)
UpsertAll(st, ts, now) ==
    IF ts = <<>> THEN st ELSE UpsertAll(Upsert(st, Head(ts), now), Tail(ts), now)

\* execute_batch(cur, upsert_query, data_tuples): every row is formatted
\* into the query before the page is sent
execute_batch(st, ts, now) ==
    IF \E i \in 1..Len(ts) : Mogrify(ts[i]) # "ok"
    THEN [exc |-> "TypeError", store |-> st]
    ELSE [exc |-> "none", store |-> UpsertAll(st, ts, now)]

(***************************************************************************)
(* Exception handlers                                                      *)
(***************************************************************************)
\* the classes derived from Exception; KeyboardInterrupt is not one
ExceptionClasses ==
    {"Exception", "ConnectionError", "JSONDecodeError", "FileNotFoundError",
     "ValueError", "KeyError", "IndexError", "TypeError", "OperationalError",
     "UnboundLocalError"}

\* load_to_postgres: except Exception as e
LtpExceptMatches(exc) == exc \in ExceptionClasses

\* the handler with a fault: it returns the error without closing the
\* connection
LtpExcept_no_close(c) ==
    IF c = "unbound"
    THEN [exc |-> "UnboundLocalError", conn |-> c]
    ELSE [exc |-> "none", conn |-> c]

\* load_to_postgres: the handler's body, entered with conn in state c.  It
\* reads conn, which is unbound when psycopg2.connect itself raised.
LtpExcept(c) ==
    IF c = "unbound"
    THEN [exc |-> "UnboundLocalError", conn |-> c]
    ELSE [exc |-> "none", conn |-> "closed"]

\* the inner handler with a fault: only some classes of errors are caught
TickExceptMatches_narrow(exc) == exc \in {"Exception", "ValueError", "IndexError"}

\* the inner handler with a fault: a bare except, which catches the
\* interrupt as well
TickExceptMatches_bare(exc) == TRUE

\* main, inner try: except Exception as e
TickExceptMatches(exc) == exc \in ExceptionClasses

\* main, outer try: except KeyboardInterrupt
OuterExceptMatches(exc) == exc = "KeyboardInterrupt"

\* where main goes when exc leaves the inner try's body
AfterTick(exc) ==
    IF TickExceptMatches(exc) THEN "sleep"
    ELSE IF OuterExceptMatches(exc) THEN "stopped"
    ELSE "crashed"

\* what main prints then
Printed(exc) ==
    IF TickExceptMatches(exc) THEN "Error occurred"
    ELSE IF OuterExceptMatches(exc) THEN "Program stopped by user"
    ELSE "Traceback"

(***************************************************************************)
(* State                                                                   *)
(***************************************************************************)
VARIABLES
    pc,             \* main's position: top, fetch, load_json, transform,
                    \* connect, create_table, write, sleep, stopped, crashed
    tick,           \* the number of the tick; also the wall clock's reading
    file,           \* the intermediate file current_matches.json
    df,             \* main's df
    df_transformed, \* main's df_transformed
    conn,           \* load_to_postgres's conn: unbound, open, closed
    openConns,      \* connections the process holds open
    store,          \* the rows of cricket_matches, by id
    emptyRaises,    \* see transform_data
    reported,       \* what the tick printed last
    failed,         \* the step whose exception ended the tick's try body
    raisedExc,      \* that exception
    ltp,            \* this tick's call of load_to_postgres: none, running,
                    \* None, error (a string returned), raised, interrupted
    dbFault,        \* the database failed during that call
    readFile,       \* the file content load_json_to_dataframe read this tick
    fetchedFile,    \* the file content fetch_and_save_json wrote this tick
    stoppedAt,      \* the position at which an interrupt arrived
    arg, ret, called \* a single call of a pure function: input, result, name

progVars == <<pc, tick, file, df, df_transformed, conn, openConns, store, emptyRaises>>
logVars == <<reported, failed, raisedExc, ltp, dbFault, readFile, fetchedFile, stoppedAt>>
pureVars == <<arg, ret, called>>
vars == <<progVars, logVars, pureVars>>

EmptyStore == [i \in Ids |-> NoRow]

\* The process as main starts: nothing fetched, the store without rows, and
\* the intermediate file absent or left behind by an earlier run.
MainInit ==
    /\ pc = "top"
    /\ tick = 0
    /\ file \in {NoFile,
                 FileOf(0, [hasData |-> TRUE,
                            data |-> <<RawMatch("m1", GoodName, "Live",
                                                GoodVenue, OneInnings)>>])}
    /\ df = <<>>
    /\ df_transformed = <<>>
    /\ conn = "unbound"
    /\ openConns = 0
    /\ store = EmptyStore
    /\ emptyRaises \in BOOLEAN
    /\ reported = "none"
    /\ failed = "none"
    /\ raisedExc = "none"
    /\ ltp = "none"
    /\ dbFault = FALSE
    /\ readFile = NoFile
    /\ fetchedFile = NoFile
    /\ stoppedAt = "none"

Init ==
    /\ MainInit
    /\ arg = <<>>
    /\ ret = <<>>
    /\ called = "none"

(***************************************************************************)
(* main                                                                    *)
(***************************************************************************)
\* An exception exc leaves the inner try's body, raised by step.
Raised(step, exc) ==
    /\ pc' = AfterTick(exc)
    /\ reported' = Printed(exc)
    /\ failed' = step
    /\ raisedExc' = exc

\* while True: the tick starts (lines 208-212)
LoopTop ==
    /\ pc = "top"
    /\ tick < MaxTicks
    /\ pc' = "fetch"
    /\ tick' = tick + 1
    /\ df' = <<>>
    /\ df_transformed' = <<>>
    /\ conn' = "unbound"
    /\ reported' = "none"
    /\ failed' = "none"
    /\ raisedExc' = "none"
    /\ ltp' = "none"
    /\ dbFault' = FALSE
    /\ readFile' = NoFile
    /\ fetchedFile' = NoFile
    /\ UNCHANGED <<file, openConns, store, emptyRaises, stoppedAt, pureVars>>

\* fetch_and_save_json(api_url, filename)
Fetch ==
    /\ pc = "fetch"
    /\ \E resp \in Responses :
         LET r == fetch_and_save_json(resp, file, tick) IN
         /\ file' = r.file
         /\ fetchedFile' = IF resp.status = 200 /\ resp.json /\ r.exc = "none"
                           THEN r.file ELSE fetchedFile
         /\ IF r.exc = "none"
            THEN pc' = "load_json" /\ UNCHANGED <<reported, failed, raisedExc>>
            ELSE Raised("fetch", r.exc)
    /\ UNCHANGED <<tick, df, df_transformed, conn, openConns, store, emptyRaises,
                   ltp, dbFault, readFile, stoppedAt, pureVars>>

\* df = load_json_to_dataframe(filename)
LoadJson ==
    /\ pc = "load_json"
    /\ LET r == load_json_to_dataframe(file) IN
         /\ readFile' = file
         /\ IF r.exc = "none"
            THEN /\ df' = r.val
                 /\ pc' = "transform"
                 /\ UNCHANGED <<reported, failed, raisedExc>>
            ELSE /\ df' = df
                 /\ Raised("load_json", r.exc)
    /\ UNCHANGED <<tick, file, df_transformed, conn, openConns, store, emptyRaises,
                   ltp, dbFault, fetchedFile, stoppedAt, pureVars>>

\* df_transformed = transform_data(df)
Transform ==
    /\ pc = "transform"
    /\ LET r == transform_data(df, tick, emptyRaises) IN
         IF r.exc = "none"
         THEN /\ df_transformed' = r.val
              /\ pc' = "connect"
              /\ ltp' = "running"
              /\ UNCHANGED <<reported, failed, raisedExc>>
         ELSE /\ df_transformed' = df_transformed
              /\ ltp' = ltp
              /\ Raised("transform", r.exc)
    /\ UNCHANGED <<tick, file, df, conn, openConns, store, emptyRaises,
                   dbFault, readFile, fetchedFile, stoppedAt, pureVars>>

(***************************************************************************)
(* load_to_postgres, called by main with df_transformed                    *)
(***************************************************************************)
\* An exception exc is raised in the try body of load_to_postgres: the
\* handler, when it matches, closes and returns the error string to main,
\* which prints it; an exception of the handler's own, or one that does not
\* match (kind says what the call then ended as, step what main sees as the
\* failing step), goes on to main's try.
LtpRaised(exc, kind, step) ==
    IF LtpExceptMatches(exc)
    THEN LET h == LtpExcept(conn) IN
         /\ conn' = h.conn
         /\ openConns' = IF conn = "open" /\ h.conn = "closed"
                         THEN openConns - 1 ELSE openConns
         /\ IF h.exc = "none"
            THEN /\ ltp' = "error"
                 /\ pc' = "sleep"
                 /\ reported' = "Database Error"
                 /\ UNCHANGED <<failed, raisedExc>>
            ELSE /\ ltp' = "raised"
                 /\ Raised("load_to_postgres", h.exc)
    ELSE /\ ltp' = kind
         /\ UNCHANGED <<conn, openConns>>
         /\ Raised(step, exc)

\* conn = psycopg2.connect(...)
Connect ==
    /\ pc = "connect"
    /\ \E up \in BOOLEAN :
         IF up
         THEN /\ conn' = "open"
              /\ openConns' = openConns + 1
              /\ pc' = "create_table"
              /\ UNCHANGED <<reported, failed, raisedExc, ltp, dbFault>>
         ELSE /\ dbFault' = TRUE
              /\ LtpRaised("OperationalError", "raised", "load_to_postgres")
    /\ UNCHANGED <<tick, file, df, df_transformed, store, emptyRaises,
                   readFile, fetchedFile, stoppedAt, pureVars>>

\* create_postgres_table(conn)
CreateTable ==
    /\ pc = "create_table"
    /\ \E up \in BOOLEAN :
         IF up
         THEN /\ pc' = "write"
              /\ UNCHANGED <<conn, openConns, reported, failed, raisedExc, ltp, dbFault>>
         ELSE /\ dbFault' = TRUE
              /\ LtpRaised("OperationalError", "raised", "load_to_postgres")
    /\ UNCHANGED <<tick, file, df, df_transformed, store, emptyRaises,
                   readFile, fetchedFile, stoppedAt, pureVars>>

\* execute_batch(...), conn.commit(), conn.close(), return None
Write ==
    /\ pc = "write"
    /\ LET r == execute_batch(store, data_tuples(df_transformed), tick) IN
       \E up \in BOOLEAN :
         IF r.exc # "none"
         THEN /\ store' = store
              /\ dbFault' = dbFault
              /\ LtpRaised(r.exc, "raised", "load_to_postgres")
         ELSE IF ~up
         THEN /\ store' = store
              /\ dbFault' = TRUE
              /\ LtpRaised("OperationalError", "raised", "load_to_postgres")
         ELSE /\ store' = r.store
              /\ conn' = "closed"
              /\ openConns' = openConns - 1
              /\ ltp' = "None"
              /\ pc' = "sleep"
              /\ reported' = "Successfully loaded"
              /\ UNCHANGED <<failed, raisedExc, dbFault>>
    /\ UNCHANGED <<tick, file, df, df_transformed, emptyRaises,
                   readFile, fetchedFile, stoppedAt, pureVars>>

\* time.sleep(10), then the loop's next round
Sleep ==
    /\ pc = "sleep"
    /\ pc' = "top"
    /\ UNCHANGED <<tick, file, df, df_transformed, conn, openConns, store,
                   emptyRaises, logVars, pureVars>>

\* Ctrl+C: KeyboardInterrupt is raised at the statement being executed.
Interrupt ==
    /\ pc \notin {"stopped", "crashed"}
    /\ stoppedAt' = pc
    /\ IF pc \in {"top", "sleep"}
       THEN /\ pc' = IF OuterExceptMatches("KeyboardInterrupt")
                     THEN "stopped" ELSE "crashed"
            /\ reported' = "Program stopped by user"
            /\ raisedExc' = "KeyboardInterrupt"
            /\ UNCHANGED <<failed, ltp, conn, openConns>>
       ELSE IF pc \in {"connect", "create_table", "write"}
       THEN LtpRaised("KeyboardInterrupt", "interrupted", "interrupt")
       ELSE /\ Raised("interrupt", "KeyboardInterrupt")
            /\ UNCHANGED <<ltp, conn, openConns>>
    /\ UNCHANGED <<tick, file, df, df_transformed, store, emptyRaises,
                   dbFault, readFile, fetchedFile, pureVars>>

Next ==
    \/ LoopTop
    \/ Fetch
    \/ LoadJson
    \/ Transform
    \/ Connect
    \/ CreateTable
    \/ Write
    \/ Sleep
    \/ Interrupt

Spec == Init /\ [][Next]_vars

(***************************************************************************)
(* Single calls of the pure functions, over bounded sets of inputs.        *)
(***************************************************************************)
LeftSegments ==
    { <<"A", " ", "v", "s", " ", "B">>,
      <<" ", "A", " ", " ", "v", "s", " ", "B", " ">>,
      <<"A", " ", "v", "s", " ", "B", " ", "v", "s", " ", "A">>,
      <<"A">>,
      <<>> }

TailChars == {",", " ", "3", "M"}

Tails == UNION {[1..n -> TailChars] : n \in 0..MaxTail}

\* the names split_teams is called with
Names == {l \o t : l \in LeftSegments, t \in Tails}

NumbersR == {<<>>, <<120>>, <<7>>}
NumbersW == {<<>>, <<3>>}
NumbersO == {<<>>, <<15, 2>>}

Entries == [r : NumbersR, w : NumbersW, o : NumbersO]

\* the score cells format_score is called with
ScoreCells ==
    {NotAList} \cup {ListOf(s) : s \in UNION {[1..n -> Entries] : n \in 0..MaxInnings}}

MainQuiet == MainInit /\ ~file.exists /\ emptyRaises

InitSplit ==
    /\ MainQuiet
    /\ arg \in Names
    /\ ret = Ok(<<>>)
    /\ called = "none"

CallSplitTeams ==
    /\ called = "none"
    /\ called' = "split_teams"
    /\ ret' = split_teams(arg)
    /\ UNCHANGED <<arg, progVars, logVars>>

SpecSplit == InitSplit /\ [][CallSplitTeams]_vars

InitScore ==
    /\ MainQuiet
    /\ arg \in ScoreCells
    /\ ret = <<>>
    /\ called = "none"

CallFormatScore ==
    /\ called = "none"
    /\ called' = "format_score"
    /\ ret' = format_score(arg)
    /\ UNCHANGED <<arg, progVars, logVars>>

SpecScore == InitScore /\ [][CallFormatScore]_vars

(***************************************************************************)
(* Properties of the poll loop (specification Spec)                        *)
(***************************************************************************)
TickSteps == {"fetch", "load_json", "transform", "load_to_postgres"}
InLtp == {"connect", "create_table", "write"}
BetweenTicks == {"top", "sleep"}

\* C1: an exception raised by fetch_and_save_json, load_json_to_dataframe,
\* transform_data or load_to_postgres during a tick is caught at the tick
\* boundary and reported, and never ends the process: the loop is then at
\* its sleep (or past it, at the top of the next round) unless the operator
\* has interrupted it there, and the only step from the sleep is to the top
\* of the loop, after a failed tick as after a successful one.
C1_FailedTickNotFatal ==
    /\ [](/\ pc # "crashed"
          /\ failed \in TickSteps =>
                \/ /\ pc \in BetweenTicks
                   /\ raisedExc \in ExceptionClasses
                   /\ reported = "Error occurred"
                \/ pc = "stopped" /\ stoppedAt \in BetweenTicks)
    /\ [][/\ pc = "sleep" => pc' \in {"top", "stopped"}
          /\ (pc \notin BetweenTicks /\ pc' \notin {pc, "stopped"} /\ failed' # "none")
                => pc' = "sleep"]_vars

\* a tick failed in load_to_postgres itself, and the loop is back at its top
C1_Witness ==
    /\ pc = "top"
    /\ tick = 1
    /\ failed = "load_to_postgres"
    /\ raisedExc = "UnboundLocalError"
    /\ reported = "Error occurred"

\* C2: load_to_postgres never raises past its own boundary: every failure
\* of connect, schema-ensure or write is returned as an error string, and
\* None is returned only after a successful write.
C2_NeverRaises ==
    /\ ltp # "raised"
    /\ dbFault /\ ltp # "running" => ltp \in {"error", "interrupted"}
    /\ ltp = "None" => ~dbFault /\ reported = "Successfully loaded"

\* C3: the upsert is keyed by id and idempotent: once load_to_postgres has
\* returned from a call during which the database did not fail, the store
\* holds for every id of the submitted batch one row, which carries the
\* system_time of this submission and a created_at no later than it.
C3_UpsertKeyedById ==
    (ltp \in {"None", "error"} /\ ~dbFault) =>
        \A i \in 1..Len(df_transformed) :
            LET row == store[df_transformed[i].id] IN
            /\ row.present
            /\ row.cols[Len(columns_order)] = df_transformed[i].system_time
            /\ row.created_at <= tick

\* C4: in a tick where Extract or Transform fails no store write is
\* attempted: load_to_postgres is called only in a tick whose fetch got a
\* 200 with a payload holding a non-empty "data" list in which every record
\* that passes the filter has a well-formed name and venue; a tick that
\* failed before has not called it, has opened no connection, has reported
\* the error and goes on to the sleep.
WellFormed(r) ==
    /\ \E i \in 1..Len(r.name) :
          /\ OccursAt(r.name, VS, i)
          /\ \A j \in 1..(i + Len(VS) - 1) : r.name[j] # ","
    /\ \E i \in 1..Len(r.venue) : r.venue[i] = ","

C4_NoWriteAfterFailedExtractOrTransform ==
    /\ ltp # "none" =>
          /\ fetchedFile.exists
          /\ fetchedFile.payload.hasData
          /\ fetchedFile.payload.data # <<>>
          /\ \A i \in 1..Len(fetchedFile.payload.data) :
                LET r == fetchedFile.payload.data[i] IN
                r.status # RainSentinel => WellFormed(r)
    /\ failed \in {"fetch", "load_json", "transform"} =>
          /\ ltp = "none"
          /\ conn = "unbound"
          /\ openConns = 0
          /\ store = EmptyStore
          /\ pc = "sleep" => reported = "Error occurred"
          /\ pc \in BetweenTicks \/ (pc = "stopped" /\ stoppedAt \in BetweenTicks)

\* a batch with a well-formed record and a malformed one failed in
\* transform_data, and nothing was written
C4_Witness ==
    /\ pc = "sleep"
    /\ failed = "transform"
    /\ raisedExc = "IndexError"
    /\ ltp = "none"
    /\ Len(df) = 2
    /\ WellFormed(df[1]) /\ df[1].status # RainSentinel
    /\ ~WellFormed(df[2]) /\ df[2].status # RainSentinel

\* C5: transform_data filters before it parses, by exact match: when it
\* returns, its rows are, in input order, the input records whose status is
\* not exactly the sentinel; and it raises only for a malformed name or
\* venue in a record that passes the filter (or, where the pandas in use
\* does so, for a frame the filter left empty), never for one in a record
\* with the sentinel status.
KeptOf(frame) == SelectSeq(frame, LAMBDA r : r.status # "No result due to rain")

C5_FilterBeforeParse ==
    /\ ltp # "none" =>
          /\ Len(df_transformed) = Len(KeptOf(df))
          /\ \A i \in 1..Len(df_transformed) :
                /\ df_transformed[i].id = KeptOf(df)[i].id
                /\ df_transformed[i].status = KeptOf(df)[i].status
    /\ failed = "transform" =>
          \/ \E i \in 1..Len(KeptOf(df)) : ~WellFormed(KeptOf(df)[i])
          \/ KeptOf(df) = <<>> /\ emptyRaises
    /\ (pc = "transform" /\ \A i \in 1..Len(KeptOf(df)) : WellFormed(KeptOf(df)[i]))
          => \/ transform_data(df, tick, emptyRaises).exc = "none"
             \/ KeptOf(df) = <<>> /\ emptyRaises

\* a malformed record with the sentinel status was dropped, and a record
\* with the empty status passed
C5_Witness ==
    /\ ltp # "none"
    /\ Len(df) = 2
    /\ df[1].status = RainSentinel /\ ~WellFormed(df[1])
    /\ df[2].status = ""
    /\ Len(df_transformed) = 1
    /\ df_transformed[1].id = df[2].id

\* C6, as claimed: the interrupt ends the loop only between ticks, never
\* mid-tick.
C6_StopsOnlyBetweenTicks ==
    pc = "stopped" => stoppedAt \in BetweenTicks

\* C6, amended: the interrupt ends the loop wherever it arrives, mid-tick
\* included.  Neither handler for Exception catches it, so the process stops
\* at once, the steps of the tick that had not run yet are abandoned, and
\* an interrupt inside load_to_postgres leaves the call unfinished.
C6_InterruptStopsAnywhere ==
    stoppedAt # "none" =>
        /\ pc = "stopped"
        /\ raisedExc = "KeyboardInterrupt"
        /\ reported = "Program stopped by user"
        /\ stoppedAt \in {"fetch", "load_json", "transform"} => ltp = "none"
        /\ stoppedAt \in InLtp => ltp = "interrupted"

\* the interrupt arrived during the write, and the process stopped there
C6_Witness ==
    /\ pc = "stopped"
    /\ stoppedAt = "write"
    /\ ltp = "interrupted"
    /\ conn = "open"

\* C7: load_to_postgres leaks no connection: once it has returned or raised,
\* and at every position of main outside it, the process holds no open
\* connection.
C7_NoLeakedConnection ==
    /\ pc \in {"top", "fetch", "load_json", "transform", "sleep"} => openConns = 0
    /\ ltp \in {"None", "error", "raised"} => openConns = 0 /\ conn # "open"

\* the schema-ensure or the write failed on an open connection, which was
\* closed before the error was returned
C7_Witness ==
    /\ pc = "sleep"
    /\ ltp = "error"
    /\ dbFault
    /\ conn = "closed"
    /\ openConns = 0

\* C10: a tick never processes a stale payload: what load_json_to_dataframe
\* reads is the file written by the fetch of the same tick, and in a tick
\* whose fetch failed the file is not read, transformed or written to the
\* store.
C10_NoStalePayload ==
    /\ readFile.exists => readFile = fetchedFile /\ readFile.stamp = tick
    /\ df # <<>> => fetchedFile.exists /\ df = fetchedFile.payload.data
    /\ ltp # "none" => fetchedFile.exists /\ fetchedFile.stamp = tick
    /\ failed = "fetch" => ~readFile.exists /\ df = <<>> /\ ltp = "none"

\* the fetch of the second tick failed with the first tick's file on disk,
\* which was not read
C10_Witness ==
    /\ tick = 2
    /\ pc = "sleep"
    /\ failed = "fetch"
    /\ file.exists /\ file.stamp = 1
    /\ ~readFile.exists

(***************************************************************************)
(* Properties of split_teams (specification SpecSplit)                     *)
(***************************************************************************)
Min(S) == CHOOSE x \in S : \A y \in S : x <= y

Commas(s) == {i \in 1..Len(s) : s[i] = ","}

\* the text before the first comma
LeftOf(s) == IF Commas(s) = {} THEN s ELSE SubSeq(s, 1, Min(Commas(s)) - 1)

\* the whole text after the first comma
RemainderOf(s) ==
    IF Commas(s) = {} THEN <<>> ELSE SubSeq(s, Min(Commas(s)) + 1, Len(s))

\* the text between the first comma and the second (or the end)
SecondSegmentOf(s) == LeftOf(RemainderOf(s))

\* the first maximal run of non-blank characters of s, <<>> when s is blank
FirstToken(s) ==
    LET inked == {i \in 1..Len(s) : s[i] # " "} IN
    IF inked = {}
    THEN <<>>
    ELSE LET a == Min(inked)
             stops == {j \in a..Len(s) : s[j] = " "}
             b == IF stops = {} THEN Len(s) ELSE Min(stops) - 1
         IN  SubSeq(s, a, b)

\* the teams of a left segment that holds " vs "
TeamsOf(left) ==
    LET i == IndexOf(left, VS)
        rest == SubSeq(left, i + Len(VS), Len(left))
        k == IndexOf(rest, VS)
    IN  <<Strip(SubSeq(left, 1, i - 1)),
          Strip(IF k = 0 THEN rest ELSE SubSeq(rest, 1, k - 1))>>

\* C8, as claimed: MatchNumber is the first whitespace-delimited token of
\* the whole remainder after the first comma, for every name.
C8_MatchNumberFromRemainder ==
    (called = "split_teams" /\ ret.exc = "none") =>
        /\ ret.val[1] = TeamsOf(LeftOf(arg))[1]
        /\ ret.val[2] = TeamsOf(LeftOf(arg))[2]
        /\ ret.val[3] = FirstToken(RemainderOf(arg))

\* C8, amended: split_teams splits name on every comma.  Team1 and Team2
\* are the trimmed parts around " vs " of the text before the first comma
\* (it raises when there is no " vs " there), and MatchNumber is the first
\* whitespace-delimited token of the text between the first comma and the
\* second, or "" when that text is blank or name has no comma; what follows
\* a second comma is ignored.
C8_MatchNumberFromSecondSegment ==
    called = "split_teams" =>
        /\ ret.exc = (IF IndexOf(LeftOf(arg), VS) = 0 THEN "IndexError" ELSE "none")
        /\ ret.exc = "none" =>
              /\ ret.val[1] = TeamsOf(LeftOf(arg))[1]
              /\ ret.val[2] = TeamsOf(LeftOf(arg))[2]
              /\ ret.val[3] = FirstToken(SecondSegmentOf(arg))
              /\ Commas(arg) = {} => ret.val[3] = <<>>

\* "A vs B,3,M": the match number is "3", not "3,M"
C8_Witness ==
    /\ called = "split_teams"
    /\ arg = <<"A", " ", "v", "s", " ", "B", ",", "3", ",", "M">>
    /\ ret = Ok(<<<<"A">>, <<"B">>, <<"3">>>>)

(***************************************************************************)
(* Properties of format_score (specification SpecScore)                    *)
(***************************************************************************)
\* one field of an entry as it is printed, 0 for a missing one
Shown(v) == IF v = <<>> THEN <<"0">> ELSE NumStr(v)

Formatted(e) ==
    Shown(e.r) \o <<"/">> \o Shown(e.w) \o <<"(">> \o Shown(e.o) \o <<")">>

\* C9: format_score yields exactly two strings: ("", "") for an empty list
\* or a score that is no list, (formatted, "") for one entry, the formatted
\* first two entries for two or more; an entry is printed as
\* runs/wickets(overs), with 0 for a missing field.
C9_TwoScores ==
    called = "format_score" =>
        /\ Len(ret) = 2
        /\ (~arg.isList \/ Len(arg.items) = 0) => ret = <<<<>>, <<>>>>
        /\ (arg.isList /\ Len(arg.items) = 1) =>
              ret = <<Formatted(arg.items[1]), <<>>>>
        /\ (arg.isList /\ Len(arg.items) >= 2) =>
              ret = <<Formatted(arg.items[1]), Formatted(arg.items[2])>>
        /\ arg = ListOf(<<[r |-> <<120>>, w |-> <<3>>, o |-> <<15, 2>>]>>) =>
              ret[1] = <<"1", "2", "0", "/", "3", "(", "1", "5", ".", "2", ")">>
        /\ arg = ListOf(<<[r |-> <<>>, w |-> <<>>, o |-> <<>>]>>) =>
              ret[1] = <<"0", "/", "0", "(", "0", ")">>

\* three innings: the third one is dropped
C9_Witness ==
    /\ called = "format_score"
    /\ arg.isList
    /\ Len(arg.items) = 3
    /\ arg.items[3] # arg.items[2]
    /\ ret = <<Formatted(arg.items[1]), Formatted(arg.items[2])>>

=============================================================================
